---- MODULE Spec2Model ----
(***************************************************************************)
(* Model of the orca application shell (crates/orca_libadwaita):           *)
(*   lib.rs          main(): localisation, resources, application, run     *)
(*   application.rs  OrcaApplication: constructed, activate, quit, about   *)
(*   window.rs       OrcaWindow::new                                       *)
(*                                                                         *)
(* The toolkit is modelled by what the program calls: the application's    *)
(* action map and accelerator table, its list of windows in most-recently- *)
(* focused order (active_window() is its head), and the single-threaded    *)
(* event loop of run(), which dispatches one handler at a time.            *)
(* Closing the last window and quit() both end run(); the event that ends  *)
(* the loop is the last one dispatched.                                    *)
(***************************************************************************)
EXTENDS Naturals, Sequences, FiniteSets

\* Bounds of the model (not program constants).
MaxActivations == 3     \* activate() calls in one run
MaxWindows == 2         \* window objects that can be allocated
MaxDialogs == 2         \* about dialogs that can be allocated

VARIABLES
  pc,           \* position of main(): a startup step, a step of constructed(),
                \* "run", "activate" (run()'s own first activation), "loop",
                \* "returned", "exited" or "panicked"
  startupLog,   \* startup calls of main() that returned Ok, in order
  actions,      \* the application's action map: set of <<name, handler>>
  accels,       \* accelerator table: set of <<detailed action name, key>>
  regLog,       \* registrations performed by constructed(), in order
  appWindows,   \* the application's windows, most recently focused first:
                \* toplevels <<"window", id>> (and <<"dialog", id>>, were a
                \* dialog given the application)
  win,          \* window id -> [application, visible, alive]; ids 1..nConstructed
  nConstructed, \* OrcaWindow::new calls that returned a window
  dialogs,      \* open about dialogs
  nDialogs,     \* about dialogs ever built
  focus,        \* the toplevel holding focus: <<>>, <<"window", id>>, <<"dialog", id>>
  nActivate,    \* activate() calls so far
  presented,    \* the toplevel each activate() call presented, in order
  nAbout,       \* show_about() calls so far
  runResult,    \* Option: what app.run() returned
  exitStatus,   \* Option: the process exit status
  panic,        \* Option: the message of the expect()/unwrap() that failed
  newFailed,    \* whether glib::Object::new returned Err for a window
  lastEvent     \* the handler the event loop dispatched last ("none" before any)

vars == <<pc, startupLog, actions, accels, regLog, appWindows, win, nConstructed,
          dialogs, nDialogs, focus, nActivate, presented, nAbout, runResult,
          exitStatus, panic, newFailed, lastEvent>>

\* Option<T> as a sequence of length <= 1
None == <<>>
Some(x) == <<x>>

\* The single application instance; the only owner a window can be given.
App == "com.github.wroyca.orca"

\* The four startup calls of main(), in program order, then the constructor.
StartupSteps == <<"bindtextdomain", "bind_textdomain_codeset", "textdomain",
                  "resources_register_include">>

ExpectMessage(step) ==
  CASE step = "bindtextdomain" -> "Unable to bind the text domain"
    [] step = "bind_textdomain_codeset" -> "Unable to set the text domain encoding"
    [] step = "textdomain" -> "Unable to switch to the text domain"
    [] step = "resources_register_include" -> "Could not load resources"

StepNames == {StartupSteps[i] : i \in 1..Len(StartupSteps)}

\* Position of a startup step in main(), and the position that follows it.
StepIndex(step) == CHOOSE i \in 1..Len(StartupSteps) : StartupSteps[i] = step

AfterStartupStep(step) ==
  IF StepIndex(step) = Len(StartupSteps) THEN "new"
  ELSE StartupSteps[StepIndex(step) + 1]

\* A panic in main() unwinds out of main: the process ends with Rust's panic status.
PanicStatus == 101
\* A panic inside a handler has to cross the toolkit's C frames: the runtime
\* aborts (SIGABRT, 128 + 6 as a shell reports it) or the unwind reaches main().
AbortStatus == 134
HandlerPanicStatuses == {PanicStatus, AbortStatus}

Init ==
  /\ pc = StartupSteps[1]
  /\ startupLog = <<>>
  /\ actions = {}
  /\ accels = {}
  /\ regLog = <<>>
  /\ appWindows = <<>>
  /\ win = <<>>
  /\ nConstructed = 0
  /\ dialogs = {}
  /\ nDialogs = 0
  /\ focus = None
  /\ nActivate = 0
  /\ presented = <<>>
  /\ nAbout = 0
  /\ runResult = None
  /\ exitStatus = None
  /\ panic = None
  /\ newFailed = FALSE
  /\ lastEvent = "none"

\* ---------------------------------------------------------------- main()

\* Result::expect on an Err: the process panics with the message.
StartupFailureIgnored(step) ==
  /\ pc' = AfterStartupStep(step)
  /\ UNCHANGED <<panic, exitStatus>>

StartupFailure(step) ==
  /\ pc' = "panicked"
  /\ panic' = Some(ExpectMessage(step))
  /\ exitStatus' = Some(PanicStatus)

\* One startup call of main(): lines 38, 39, 40, 42.  ok is what the call returned.
StartupStep(ok) ==
  /\ pc \in StepNames
  /\ IF ok
       THEN /\ startupLog' = Append(startupLog, pc)
            /\ pc' = AfterStartupStep(pc)
            /\ UNCHANGED <<panic, exitStatus>>
       ELSE /\ StartupFailure(pc)
            /\ UNCHANGED startupLog
  /\ UNCHANGED <<newFailed, lastEvent, actions, accels, regLog, appWindows, win, nConstructed, dialogs,
                 nDialogs, focus, nActivate, presented, nAbout, runResult>>

\* OrcaApplication::new: glib::Object::new(...).expect(...); on Ok the object
\* system calls constructed() next.
OrcaApplication_new(ok) ==
  /\ pc = "new"
  /\ IF ok
       THEN /\ pc' = "setup_gactions"
            /\ UNCHANGED <<panic, exitStatus>>
       ELSE /\ pc' = "panicked"
            /\ panic' = Some("Failed to create OrcaApplication")
            /\ exitStatus' = Some(PanicStatus)
  /\ UNCHANGED <<newFailed, lastEvent, startupLog, actions, accels, regLog, appWindows, win, nConstructed,
                 dialogs, nDialogs, focus, nActivate, presented, nAbout, runResult>>

\* ------------------------------------------------- constructed() (l. 47-51)

\* gio::ActionMap::add_action: an action of the same name is replaced.
add_actionReplacingAll(table, name, handler) == {<<name, handler>>}

add_action(table, name, handler) ==
  {a \in table : a[1] # name} \cup {<<name, handler>>}

\* gtk::Application::set_accels_for_action: replaces the action's accelerators.
set_accels_for_action(table, detailed, keys) ==
  {a \in table : a[1] # detailed} \cup {<<detailed, k>> : k \in keys}

ActionNames == {a[1] : a \in actions}

\* setup_gactions, l. 82-85 and 92: the quit action and its handler
AddQuitAction ==
  /\ pc = "setup_gactions"
  /\ actions' = add_action(actions, "quit", "app.quit()")
  /\ regLog' = Append(regLog, "add_action:quit")
  /\ pc' = "add_about"
  /\ UNCHANGED <<newFailed, lastEvent, startupLog, accels, appWindows, win, nConstructed, dialogs, nDialogs,
                 focus, nActivate, presented, nAbout, runResult, exitStatus, panic>>

\* setup_gactions, l. 87-90 and 93: the about action and its handler
AddAboutActionAsQuit ==
  /\ pc = "add_about"
  /\ actions' = add_action(actions, "quit", "app.show_about()")
  /\ regLog' = Append(regLog, "add_action:about")
  /\ pc' = "set_accels"
  /\ UNCHANGED <<newFailed, lastEvent, startupLog, accels, appWindows, win, nConstructed,
                 dialogs, nDialogs, focus, nActivate, presented, nAbout, runResult,
                 exitStatus, panic>>

AddAboutActionTwice ==
  /\ pc = "add_about"
  /\ actions' = add_action(actions, "about", "app.show_about()")
  /\ regLog' = regLog \o <<"add_action:about", "add_action:about">>
  /\ pc' = "set_accels"
  /\ UNCHANGED <<newFailed, lastEvent, startupLog, accels, appWindows, win, nConstructed,
                 dialogs, nDialogs, focus, nActivate, presented, nAbout, runResult,
                 exitStatus, panic>>

AddAboutAction ==
  /\ pc = "add_about"
  /\ actions' = add_action(actions, "about", "app.show_about()")
  /\ regLog' = Append(regLog, "add_action:about")
  /\ pc' = "set_accels"
  /\ UNCHANGED <<newFailed, lastEvent, startupLog, accels, appWindows, win, nConstructed, dialogs, nDialogs,
                 focus, nActivate, presented, nAbout, runResult, exitStatus, panic>>

\* constructed, l. 50; new() then returns the application to main()
SetAccelsSkipped ==
  /\ pc = "set_accels"
  /\ pc' = "run"
  /\ UNCHANGED <<newFailed, lastEvent, startupLog, actions, accels, regLog, appWindows, win,
                 nConstructed, dialogs, nDialogs, focus, nActivate, presented, nAbout,
                 runResult, exitStatus, panic>>

SetAccels ==
  /\ pc = "set_accels"
  /\ accels' = set_accels_for_action(accels, "app.quit", {"<primary>q"})
  /\ regLog' = Append(regLog, "set_accels:app.quit")
  /\ pc' = "run"
  /\ UNCHANGED <<newFailed, lastEvent, startupLog, actions, appWindows, win, nConstructed, dialogs, nDialogs,
                 focus, nActivate, presented, nAbout, runResult, exitStatus, panic>>

\* ------------------------------------------------------ app.run() (l. 44)

\* How run() can start: this process is the primary instance (startup, then the
\* first activate, then the loop); another instance already owns the identifier
\* (the activation is forwarded to it and run() returns 0); registration fails
\* (run() returns 1).
RunOutcomes == {"primary", "remote", "failed"}

Run(outcome) ==
  /\ pc = "run"
  /\ IF outcome = "primary"
       THEN pc' = "activate" /\ UNCHANGED runResult
       ELSE /\ pc' = "returned"
            /\ runResult' = Some(IF outcome = "remote" THEN 0 ELSE 1)
  /\ UNCHANGED <<newFailed, lastEvent, startupLog, actions, accels, regLog, appWindows, win, nConstructed,
                 dialogs, nDialogs, focus, nActivate, presented, nAbout, exitStatus,
                 panic>>

\* std::process::exit(app.run()): the status is run()'s value (8 bits survive).
ExitRunningAgain ==
  /\ pc = "returned"
  /\ runResult # None
  /\ nActivate < MaxActivations
  /\ pc' = "activate"
  /\ runResult' = None
  /\ UNCHANGED <<newFailed, lastEvent, startupLog, actions, accels, regLog, appWindows,
                 win, nConstructed, dialogs, nDialogs, focus, nActivate, presented,
                 nAbout, exitStatus, panic>>

ExitWithConstant(result) == Some(0)

ExitWith(result) == Some(result[1] % 256)

Exit ==
  /\ pc = "returned"
  /\ runResult # None
  /\ exitStatus' = ExitWith(runResult)
  /\ pc' = "exited"
  /\ UNCHANGED <<newFailed, lastEvent, startupLog, actions, accels, regLog, appWindows, win, nConstructed,
                 dialogs, nDialogs, focus, nActivate, presented, nAbout, runResult,
                 panic>>

\* ------------------------------------------------------------- windows

\* gtk::Application::active_window(): the most recently focused window of the
\* application's window list, or None when the list is empty.
active_windowNone(list) == None

active_window(list) == IF list = <<>> THEN None ELSE Some(Head(list))

\* OrcaWindow::new (window.rs l. 71-73): a window object whose "application"
\* property is the application it was given; not yet shown.
OrcaWindow_newDetached(application) ==
  [application |-> None, visible |-> FALSE, alive |-> TRUE]

OrcaWindow_newOfAnother(application) ==
  [application |-> Some("another.application"), visible |-> FALSE, alive |-> TRUE]

OrcaWindow_new(application) ==
  [application |-> Some(application), visible |-> FALSE, alive |-> TRUE]

\* Setting a window's application adds it to that application's window list,
\* at the front.
WindowAdded(list, toplevel, w) ==
  IF w.application = None THEN list ELSE <<toplevel>> \o list

\* gtk::Window::present(): the window is shown; the caller then gives it focus.
presentToggling(w) == [w EXCEPT !.visible = ~w.visible]

present(w) == [w EXCEPT !.visible = TRUE]

Remove(list, id) == SelectSeq(list, LAMBDA x : x # id)

LiveWindows == {i \in 1..nConstructed : win[i].alive}

\* The if-let of activate (l. 56-61): the window activate goes on to present.
\* existing is active_window()'s answer, made what OrcaWindow::new returned.
get_or_createAlwaysNew(existing, made) == made

get_or_create(existing, made) == IF existing # None THEN existing[1] ELSE made

\* .expect("Failed to create OrcaWindow") on an Err (window.rs l. 72): the
\* panic ends the activate call, and the process with it.
ConstructionFailureSwallowed ==
  /\ pc' = "loop"
  /\ presented' = Append(presented, <<"window", nConstructed + 1>>)
  /\ focus' = <<"window", nConstructed + 1>>
  /\ UNCHANGED <<panic, exitStatus>>

ConstructionFailure ==
  /\ pc' = "panicked"
  /\ panic' = Some("Failed to create OrcaWindow")
  /\ exitStatus' \in {Some(x) : x \in HandlerPanicStatuses}
  /\ UNCHANGED <<focus, presented>>

\* imp::OrcaApplication::activate (application.rs l. 55-63).  ok: whether
\* glib::Object::new returns Ok, should the window have to be constructed.
activate(ok) ==
  /\ pc \in {"activate", "loop"}
  /\ nActivate < MaxActivations
  /\ nActivate' = nActivate + 1
  /\ lastEvent' = "activate"
  /\ LET existing == active_window(appWindows)
         made == <<"window", nConstructed + 1>>
         window == get_or_create(existing, made)
     IN IF window # made
          THEN /\ win' = IF window[1] = "window"
                           THEN [win EXCEPT ![window[2]] = present(@)]
                           ELSE win
               /\ focus' = window
               /\ presented' = Append(presented, window)
               /\ pc' = "loop"
               /\ UNCHANGED <<appWindows, nConstructed, panic, exitStatus, newFailed>>
          ELSE IF ok
            THEN /\ nConstructed < MaxWindows
                 /\ nConstructed' = nConstructed + 1
                 /\ win' = Append(win, present(OrcaWindow_new(App)))
                 /\ appWindows' = WindowAdded(appWindows, made, OrcaWindow_new(App))
                 /\ focus' = made
                 /\ presented' = Append(presented, made)
                 /\ pc' = "loop"
                 /\ UNCHANGED <<panic, exitStatus, newFailed>>
            ELSE \* .expect("Failed to create OrcaWindow") panics inside the handler
                 /\ newFailed' = TRUE
                 /\ ConstructionFailure
                 /\ UNCHANGED <<appWindows, win, nConstructed>>
  /\ UNCHANGED <<startupLog, actions, accels, regLog, dialogs, nDialogs, nAbout,
                 runResult>>

\* The user closes a main window: it is destroyed and leaves the application's
\* list; dialogs transient for it lose their parent.  When the list becomes
\* empty nothing holds the application any more and run() returns 0.
CloseWindowHeld(w) ==
  /\ pc = "loop"
  /\ w \in LiveWindows
  /\ win' = [win EXCEPT ![w] = [@ EXCEPT !.visible = FALSE, !.alive = FALSE]]
  /\ appWindows' = Remove(appWindows, <<"window", w>>)
  /\ focus' = IF focus = <<"window", w>> THEN None ELSE focus
  /\ lastEvent' = "close"
  /\ UNCHANGED <<pc, runResult, dialogs, newFailed, startupLog, actions, accels, regLog,
                 nConstructed, nDialogs, nActivate, presented, nAbout, exitStatus, panic>>

CloseWindow(w) ==
  /\ pc = "loop"
  /\ w \in LiveWindows
  /\ win' = [win EXCEPT ![w] = [@ EXCEPT !.visible = FALSE, !.alive = FALSE]]
  /\ appWindows' = Remove(appWindows, <<"window", w>>)
  /\ dialogs' = {IF d.transient_for = Some(<<"window", w>>)
                   THEN [d EXCEPT !.transient_for = None] ELSE d
                 : d \in dialogs}
  /\ focus' = IF focus = <<"window", w>> THEN None ELSE focus
  /\ IF appWindows' = <<>>
       THEN pc' = "returned" /\ runResult' = Some(0)
       ELSE UNCHANGED <<pc, runResult>>
  /\ lastEvent' = "close"
  /\ UNCHANGED <<newFailed, startupLog, actions, accels, regLog, nConstructed, nDialogs, nActivate,
                 presented, nAbout, exitStatus, panic>>

\* ------------------------------------------------------------- actions

\* What activating the named action runs: the handler the action map holds.
Handler(name) == {a[2] : a \in {b \in actions : b[1] = name}}

\* How the quit action can be triggered: its accelerator (the key is looked up
\* in the accelerator table, then the action in the action map) or a direct
\* activation of the action.
QuitTriggers == {"accelerator", "action"}

QuitReachable(via) ==
  /\ "app.quit()" \in Handler("quit")
  /\ via = "accelerator" => <<"app.quit", "<primary>q">> \in accels

\* The quit handler (l. 83-85): app.quit() stops the event loop; run() returns 0.
quitIgnored(via) == UNCHANGED <<pc, runResult>>

quit(via) == pc' = "returned" /\ runResult' = Some(0)

QuitAction(via) ==
  /\ pc = "loop"
  /\ QuitReachable(via)
  /\ quit(via)
  /\ lastEvent' = "quit"
  /\ UNCHANGED <<newFailed, startupLog, actions, accels, regLog, appWindows, win, nConstructed,
                 dialogs, nDialogs, focus, nActivate, presented, nAbout, exitStatus,
                 panic>>

\* The about action has no accelerator; it is activated from the menu of a main
\* window that is on screen.
AboutSurface == {w \in LiveWindows : win[w].visible}

\* gtk::AboutDialog::builder() ... .build() (l. 99-105): transient_for, modal,
\* program_name, version, authors; the builder sets no application.
AboutDialogOrphan(id, window) ==
  [id |-> id, transient_for |-> None, modal |-> TRUE, application |-> None,
   program_name |-> "orca", authors |-> <<"William Roy">>]

AboutDialogOfApplication(id, window) ==
  [id |-> id, transient_for |-> Some(window), modal |-> TRUE, application |-> Some(App),
   program_name |-> "orca", authors |-> <<"William Roy">>]

AboutDialogBuilder(id, window) ==
  [id |-> id, transient_for |-> Some(window), modal |-> TRUE, application |-> None,
   program_name |-> "orca", authors |-> <<"William Roy">>]

\* OrcaApplication::show_about (l. 96-107)
show_aboutWithoutParent ==
  /\ nAbout' = nAbout + 1
  /\ nDialogs' = nDialogs + 1
  /\ dialogs' = dialogs \cup {AboutDialogOrphan(nDialogs + 1, None)}
  /\ focus' = <<"dialog", nDialogs + 1>>
  /\ UNCHANGED <<pc, panic, exitStatus, appWindows>>

show_about ==
  /\ nAbout' = nAbout + 1
  /\ LET window == active_window(appWindows)
     IN IF window = None
          THEN \* Option::unwrap on None panics inside the handler
               /\ pc' = "panicked"
               /\ panic' = Some("called Option::unwrap() on a None value")
               /\ exitStatus' \in {Some(x) : x \in HandlerPanicStatuses}
               /\ UNCHANGED <<dialogs, nDialogs, focus, appWindows>>
          ELSE /\ nDialogs' = nDialogs + 1
               /\ dialogs' = dialogs \cup {AboutDialogBuilder(nDialogs + 1, window[1])}
               /\ appWindows' = WindowAdded(appWindows, <<"dialog", nDialogs + 1>>,
                                            AboutDialogBuilder(nDialogs + 1, window[1]))
               /\ focus' = <<"dialog", nDialogs + 1>>
               /\ UNCHANGED <<pc, panic, exitStatus>>

\* The about handler (l. 88-90), activated from window w's menu.
AboutAction(w) ==
  /\ pc = "loop"
  /\ w \in AboutSurface
  /\ "app.show_about()" \in Handler("about")
  /\ nDialogs < MaxDialogs
  /\ show_about
  /\ lastEvent' = "about"
  /\ UNCHANGED <<newFailed, startupLog, actions, accels, regLog, win, nConstructed,
                 nActivate, presented, runResult>>

\* The about action belongs to the application's own action map (add_action on
\* self, l. 93), so its handler does not need a window to be called: here it
\* is activated with no window on screen.
AboutUnanchored ==
  /\ pc \in {"activate", "loop"}
  /\ AboutSurface = {}
  /\ "app.show_about()" \in Handler("about")
  /\ nDialogs < MaxDialogs
  /\ show_about
  /\ lastEvent' = "about"
  /\ UNCHANGED <<newFailed, startupLog, actions, accels, regLog, win, nConstructed,
                 nActivate, presented, runResult>>

DismissDialogQuitting(d) ==
  /\ pc = "loop"
  /\ d \in dialogs
  /\ dialogs' = dialogs \ {d}
  /\ pc' = "returned"
  /\ runResult' = Some(0)
  /\ lastEvent' = "dismiss"
  /\ UNCHANGED <<newFailed, focus, appWindows, startupLog, actions, accels, regLog, win,
                 nConstructed, nDialogs, nActivate, presented, nAbout, exitStatus, panic>>

\* The user dismisses an about dialog: the presentation layer destroys it (it
\* leaves the application's list, were it in it) and focus goes back to its
\* parent.
DismissDialog(d) ==
  /\ pc = "loop"
  /\ d \in dialogs
  /\ dialogs' = dialogs \ {d}
  /\ appWindows' = Remove(appWindows, <<"dialog", d.id>>)
  /\ focus' = IF focus # <<"dialog", d.id>> THEN focus
              ELSE IF d.transient_for = None THEN None
              ELSE d.transient_for[1]
  /\ lastEvent' = "dismiss"
  /\ UNCHANGED <<newFailed, pc, startupLog, actions, accels, regLog, win, nConstructed,
                 nDialogs, nActivate, presented, nAbout, runResult, exitStatus, panic>>

\* ------------------------------------------------------- specification

Next ==
  \/ \E ok \in BOOLEAN : StartupStep(ok)
  \/ \E ok \in BOOLEAN : OrcaApplication_new(ok)
  \/ AddQuitAction
  \/ AddAboutAction
  \/ SetAccels
  \/ \E outcome \in RunOutcomes : Run(outcome)
  \/ \E ok \in BOOLEAN : activate(ok)
  \/ \E via \in QuitTriggers : QuitAction(via)
  \/ \E w \in 1..MaxWindows : AboutAction(w)
  \/ \E w \in 1..MaxWindows : CloseWindow(w)
  \/ \E d \in dialogs : DismissDialog(d)
  \/ Exit

Spec == Init /\ [][Next]_vars

\* The program with the about action also activated outside the window's menu.
NextUnanchored == Next \/ AboutUnanchored

SpecUnanchored == Init /\ [][NextUnanchored]_vars

\* The application's lifecycle state, as the positions of main() give it.
State ==
  CASE pc \in {"run", "activate", "loop"} -> "Running"
    [] pc \in {"returned", "exited"} -> "Terminating"
    [] pc = "panicked" -> "Aborted"
    [] OTHER -> "Uninitialized"

\* ---------------------------------------------------------------- claims

IsPrefix(p, q) == Len(p) <= Len(q) /\ \A i \in 1..Len(p) : p[i] = q[i]

\* C1: however many activate() calls complete, interleaved with about
\* invocations and dialog dismissals, at most one main window is ever
\* constructed, exactly one once a call has completed, and every call presented
\* the window the first call presented.
C1_SingletonWindow ==
  /\ nConstructed <= 1
  /\ presented # <<>> => nConstructed = 1
  /\ \A i \in 1..Len(presented) : presented[i] = presented[1]

C1_Witness ==
  /\ Len(presented) = MaxActivations
  /\ nAbout >= 1
  /\ lastEvent = "dismiss"

\* C2: there is never more than one live main window; an activate() call
\* constructs a window only when the application has no live window, and with a
\* live window it constructs none and presents that window.
C2_AtMostOneLiveWindow ==
  /\ [](Cardinality(LiveWindows) <= 1)
  /\ [][nConstructed' # nConstructed => LiveWindows = {}]_vars
  /\ [][(nActivate' # nActivate /\ LiveWindows # {})
          => /\ nConstructed' = nConstructed
             /\ presented' # presented
             /\ presented'[Len(presented')] \in {<<"window", w>> : w \in LiveWindows}]_vars

C2_Witness ==
  /\ nActivate >= 2
  /\ nConstructed = 1
  /\ LiveWindows = {1}

\* C3: when construction of the application has completed, the action map holds
\* exactly quit and about, "<primary>q" is bound to app.quit and to nothing
\* else, and no key is bound to app.about.
C3_RegistrationComplete ==
  pc = "run" =>
    /\ actions = {<<"quit", "app.quit()">>, <<"about", "app.show_about()">>}
    /\ {a \in accels : a[2] = "<primary>q"} = {<<"app.quit", "<primary>q">>}
    /\ {a \in accels : a[1] = "app.about"} = {}

C3_Witness == pc = "run" /\ Cardinality(actions) = 2 /\ Cardinality(accels) = 1

\* C4: the quit handler, dispatched while the loop runs, moves the application
\* to Terminating with run() returning 0; the process then exits with exactly
\* the value run() returned.
C4_QuitTerminates ==
  /\ [][(pc = "loop" /\ lastEvent' = "quit")
          => (State = "Running" /\ State' = "Terminating" /\ runResult' = Some(0))]_vars
  /\ [](pc = "exited" => (runResult # None /\ exitStatus = runResult))
  /\ []((pc = "exited" /\ lastEvent = "quit") => exitStatus = Some(0))

C4_Witness == pc = "exited" /\ lastEvent = "quit" /\ exitStatus = Some(0)

\* C5: show_about() with an active window does not fail and adds exactly one
\* dialog, transient for the window that was active when it was called, and
\* modal.
C5_AboutDialog ==
  [][(nAbout' # nAbout /\ active_window(appWindows) # None)
       => /\ panic' = None
          /\ State' = "Running"
          /\ nDialogs' = nDialogs + 1
          /\ \E d \in dialogs' :
               /\ d \notin dialogs
               /\ dialogs' = dialogs \cup {d}
               /\ d.transient_for = Some(Head(appWindows))
               /\ d.modal]_vars

C5_Witness ==
  /\ nAbout >= 1
  /\ \E d \in dialogs :
       d.transient_for = Some(<<"window", 1>>) /\ d.modal /\ focus = <<"dialog", d.id>>

C7_PresentIdempotent ==
  /\ [](\A w \in 1..nConstructed :
          /\ present(present(win[w])) = present(win[w])
          /\ win[w].visible => present(win[w]) = win[w])
  /\ [][(nActivate' # nActivate /\ AboutSurface # {})
          => /\ win' = win
             /\ appWindows' = appWindows
             /\ nConstructed' = nConstructed
             /\ dialogs' = dialogs
             /\ panic' = None
             /\ pc' = "loop"
             /\ focus' = presented'[Len(presented')]]_vars

C7_Witness ==
  /\ Len(presented) >= 3
  /\ lastEvent = "activate"
  /\ win[1].visible
  /\ nConstructed = 1

\* C8: the startup calls run once each, in program order; when one fails the
\* process panics there with a failure status, and then no application exists,
\* nothing is registered, run() is never entered and no window is made; the
\* application is constructed only after all four calls succeeded.
C8_StartupFatal ==
  /\ IsPrefix(startupLog, StartupSteps)
  /\ pc \in StepNames => startupLog = SubSeq(StartupSteps, 1, StepIndex(pc) - 1)
  /\ pc \notin StepNames \cup {"panicked"} => startupLog = StartupSteps
  /\ startupLog # StartupSteps
       => /\ actions = {} /\ accels = {} /\ regLog = <<>>
          /\ nActivate = 0 /\ nConstructed = 0 /\ runResult = None
          /\ lastEvent = "none"
  /\ (pc = "panicked" /\ startupLog # StartupSteps)
       => /\ panic = Some(ExpectMessage(StartupSteps[Len(startupLog) + 1]))
          /\ exitStatus # None /\ exitStatus # Some(0)

C8_Witness ==
  /\ pc = "panicked"
  /\ startupLog = <<"bindtextdomain", "bind_textdomain_codeset">>
  /\ panic = Some("Unable to switch to the text domain")

\* C9: when the construction of the main window fails inside activate(), the
\* call panics: nothing is presented, no window exists, the application is not
\* running any more and the process ends with a failure status.
C9_ConstructionFailureFatal ==
  newFailed =>
    /\ pc = "panicked"
    /\ State # "Running"
    /\ panic = Some("Failed to create OrcaWindow")
    /\ presented = <<>>
    /\ focus = None
    /\ nConstructed = 0 /\ appWindows = <<>> /\ win = <<>>
    /\ exitStatus # None /\ exitStatus # Some(0)

C9_Witness == newFailed /\ nActivate = 1 /\ lastEvent = "activate"

\* C10: no activation, accelerator lookup or action dispatch happens before
\* quit and about are registered and "<primary>q" is bound to app.quit: the
\* three registrations are complete whenever run() has been entered.
C10_RegisteredBeforeLoop ==
  (pc \in {"activate", "loop", "returned", "exited"} \/ nActivate > 0 \/ lastEvent # "none")
    => /\ {"quit", "about"} \subseteq ActionNames
       /\ <<"app.quit", "<primary>q">> \in accels
       /\ Len(regLog) = 3

C10_Witness == pc = "loop" /\ nActivate >= 1 /\ nAbout >= 1 /\ lastEvent = "about"

\* constructed() has completed: main() holds the application.
Constructed == pc \in {"run", "activate", "loop", "returned", "exited"}

\* The registrations of constructed(), in the order the code performs them.
Registrations == <<"add_action:quit", "add_action:about", "set_accels:app.quit">>

\* C11 as stated: the quit accelerator is bound as part of the first side
\* effect, hence before the about action is registered.
C11_AccelBoundBeforeAbout ==
  "about" \in ActionNames => <<"app.quit", "<primary>q">> \in accels

\* C11: the construction side effects happen exactly once each, in the order:
\* the quit action is registered, then the about action, then "<primary>q" is
\* bound to app.quit; about gets no accelerator.
C11_RegistrationOrder ==
  /\ IsPrefix(regLog, Registrations)
  /\ Constructed => regLog = Registrations
  /\ ActionNames = (IF Len(regLog) >= 1 THEN {"quit"} ELSE {})
                     \cup (IF Len(regLog) >= 2 THEN {"about"} ELSE {})
  /\ accels = IF Len(regLog) >= 3 THEN {<<"app.quit", "<primary>q">>} ELSE {}

C11_Witness ==
  /\ pc = "set_accels"
  /\ regLog = <<"add_action:quit", "add_action:about">>
  /\ accels = {}

\* C12: Terminating is absorbing: once run() has returned the state stays
\* Terminating and no handler (activate, quit, about, close, dismiss) is
\* dispatched any more.
C12_TerminatingAbsorbing ==
  [][State = "Terminating"
       => /\ State' = "Terminating"
          /\ lastEvent' = lastEvent
          /\ nActivate' = nActivate
          /\ nAbout' = nAbout
          /\ runResult' = runResult
          /\ UNCHANGED <<appWindows, win, dialogs, actions, accels>>]_vars

C12_Witness == pc = "exited" /\ lastEvent = "close" /\ nAbout >= 1

\* C13: the application leaves Running only through quit() or through the
\* user closing its last window (or because run() never became the primary
\* instance); closing the last window ends run(), so after a window was closed
\* no activate() runs and no replacement window is constructed.
C13_CloseTerminates ==
  /\ [][(pc = "loop" /\ lastEvent' = "close" /\ LiveWindows' = {})
          => (State' = "Terminating" /\ runResult' = Some(0))]_vars
  /\ [][(State = "Running" /\ State' = "Terminating")
          => (pc = "run" \/ lastEvent' \in {"quit", "close"})]_vars
  /\ [][(\E w \in 1..nConstructed : ~win[w].alive)
          => (nConstructed' = nConstructed /\ nActivate' = nActivate)]_vars

C13_Witness ==
  /\ pc = "exited"
  /\ lastEvent = "close"
  /\ nConstructed = 1 /\ ~win[1].alive
  /\ nActivate < MaxActivations

\* C14: every main window that exists is owned by the application activate()
\* was called on, and that application's window list holds exactly the live
\* main windows.
C14_WindowOwner ==
  /\ \A w \in 1..nConstructed : win[w].application = Some(App)
  /\ \A w \in 1..nConstructed :
       win[w].alive <=> (\E i \in 1..Len(appWindows) : appWindows[i] = <<"window", w>>)

C14_Witness == nConstructed = 1 /\ win[1].alive /\ win[1].visible /\ nActivate = 2

\* C15: show_about() returns with the dialog open and the loop still running;
\* neither it nor the dismissal of a dialog changes the lifecycle state, the
\* main window, the action map or the accelerator table.
C15_AboutFireAndForget ==
  /\ [][(pc = "loop" /\ nAbout' # nAbout)
          => /\ pc' = "loop"
             /\ dialogs' # {}
             /\ UNCHANGED <<actions, accels, appWindows, win, nConstructed, runResult>>]_vars
  /\ [][(pc = "loop" /\ lastEvent' = "dismiss")
          => /\ State' = "Running"
             /\ Cardinality(dialogs') = Cardinality(dialogs) - 1
             /\ UNCHANGED <<pc, actions, accels, appWindows, win, nConstructed,
                            runResult, exitStatus, panic>>]_vars

C15_Witness ==
  /\ pc = "loop"
  /\ lastEvent = "dismiss"
  /\ nAbout = 1 /\ dialogs = {}
  /\ appWindows = <<<<"window", 1>>>>

\* C16: once the application is constructed the action map holds exactly one
\* action named quit and one named about, and no later step (activate, about,
\* dismissal, close, quit, exit) changes the action map or registers anything.
C16_ActionsUniqueAndStable ==
  /\ [](\A a \in actions : \A b \in actions : a[1] = b[1] => a = b)
  /\ [](Constructed
          => /\ ActionNames = {"quit", "about"}
             /\ Cardinality({a \in actions : a[1] = "quit"}) = 1
             /\ Cardinality({a \in actions : a[1] = "about"}) = 1)
  /\ [][Constructed => (actions' = actions /\ regLog' = regLog)]_vars

C16_Witness ==
  /\ pc = "exited"
  /\ lastEvent = "quit"
  /\ nAbout >= 1 /\ nActivate >= 2
  /\ Cardinality(actions) = 2

\* C17: show_about() called while active_window() is None panics on the
\* unwrap: no dialog is built or presented, the application is no longer
\* Running and the process ends with a failure status.
C17_AboutWithoutWindowFatal ==
  /\ [][(nAbout' # nAbout /\ active_window(appWindows) = None)
          => /\ pc' = "panicked"
             /\ State' # "Running"
             /\ panic' = Some("called Option::unwrap() on a None value")
             /\ exitStatus' # None /\ exitStatus' # Some(0)
             /\ UNCHANGED <<dialogs, nDialogs, focus, appWindows, win>>]_vars
  /\ [](panic = Some("called Option::unwrap() on a None value")
          => (pc = "panicked" /\ dialogs = {}))

C17_Witness ==
  /\ panic = Some("called Option::unwrap() on a None value")
  /\ nAbout = 1 /\ nDialogs = 0
  /\ lastEvent = "about"

\* C18: show_about() neither constructs nor destroys a main window and its
\* dialog never enters the application's window list; so activate() only ever
\* presents a main window, and with a dialog open a further activate() presents
\* the existing main window and a further about dialog is transient for it.
C18_DialogNeverActiveWindow ==
  /\ [][nAbout' # nAbout
          => UNCHANGED <<win, nConstructed, appWindows>>]_vars
  /\ [](\A i \in 1..Len(appWindows) : appWindows[i][1] = "window")
  /\ [](\A i \in 1..Len(presented) : presented[i][1] = "window")
  /\ [][(dialogs # {} /\ nActivate' # nActivate)
          => /\ nConstructed' = nConstructed
             /\ presented'[Len(presented')] \in {<<"window", w>> : w \in LiveWindows}]_vars
  /\ [][(dialogs # {} /\ nAbout' # nAbout)
          => \E d \in dialogs' \ dialogs :
               d.transient_for \in {Some(<<"window", w>>) : w \in LiveWindows}]_vars

C18_Witness ==
  /\ Cardinality(dialogs) = 2
  /\ \A d \in dialogs : d.transient_for = Some(<<"window", 1>>)
  /\ lastEvent = "activate"
  /\ focus = <<"window", 1>>

====
